---------------------------- MODULE Spec2Model ----------------------------
(***************************************************************************)
(* A model of run_bot.py: the Telegram command sync (load_portfolio,       *)
(* check_telegram_commands, save_portfolio, git_commit_push) and the       *)
(* morning scan of main, run repeatedly by an external scheduler.          *)
(*                                                                         *)
(* Texts are sequences of one-character strings, so that strip, upper,     *)
(* startswith, split, int and replace are computed as Python computes      *)
(* them.  The response of getUpdates is read item by item: the model       *)
(* draws each item when the loop reaches it.                               *)
(*                                                                         *)
(* Spec: runs of main, the transport delivering any items.                 *)
(* SpecWB: runs of main, getUpdates serving the updates above the offset.  *)
(* SpecCmd: one call of check_telegram_commands on any holdings list.      *)
(***************************************************************************)
EXTENDS Integers, Sequences, FiniteSets, TLC

(* ------------------------------ bounds --------------------------------- *)
MaxRuns == 2        \* scheduled runs of main
MaxBatch == 2       \* items in one getUpdates response
MaxSeq == 3         \* largest update_id the transport hands out
MaxHold == 3        \* positions the holdings list may reach

(* ------------------------- program constants --------------------------- *)
MAX_POSITIONS == 2
TOP_N == 2          \* the literal 2 of "if count >= 2: break"
SMA_LENGTH == 200   \* ta.sma(..., length=200)
MIN_ROWS == 250     \* "if len(df) < 250: continue"

(* ------------------------------ strings -------------------------------- *)
Lower == <<"a", "b", "c", "e", "l", "r", "s", "t", "u", "x", "y">>
Capital == <<"A", "B", "C", "E", "L", "R", "S", "T", "U", "X", "Y">>
Digits == <<"0", "1", "2", "3", "4", "5", "6", "7", "8", "9">>

\* str.upper on one character
UpperChar(c) ==
  IF \E i \in 1..Len(Lower) : Lower[i] = c
  THEN Capital[CHOOSE i \in 1..Len(Lower) : Lower[i] = c]
  ELSE c

\* str.upper
Upper(s) == [i \in 1..Len(s) |-> UpperChar(s[i])]

IsSpace(c) == c = " "

RECURSIVE LStrip(_)
LStrip(s) == IF s # <<>> /\ IsSpace(Head(s)) THEN LStrip(Tail(s)) ELSE s

RECURSIVE RStrip(_)
RStrip(s) ==
  IF s # <<>> /\ IsSpace(s[Len(s)]) THEN RStrip(SubSeq(s, 1, Len(s) - 1)) ELSE s

\* str.strip
Strip(s) == RStrip(LStrip(s))

\* str.startswith
StartsWith(s, p) == Len(s) >= Len(p) /\ SubSeq(s, 1, Len(p)) = p

\* str.split() on whitespace: the tokens of s, cur being the token under way
RECURSIVE SplitFrom(_, _)
SplitFrom(s, cur) ==
  IF s = <<>> THEN (IF cur = <<>> THEN <<>> ELSE <<cur>>)
  ELSE IF IsSpace(Head(s))
       THEN (IF cur = <<>> THEN <<>> ELSE <<cur>>) \o SplitFrom(Tail(s), <<>>)
       ELSE SplitFrom(Tail(s), Append(cur, Head(s)))

Split(s) == SplitFrom(s, <<>>)

IsDigit(c) == \E i \in 1..Len(Digits) : Digits[i] = c

DigitValue(c) == (CHOOSE i \in 1..Len(Digits) : Digits[i] = c) - 1

\* int(tok) succeeds: an optional sign and at least one digit
IsInt(tok) ==
  LET body == IF tok # <<>> /\ Head(tok) \in {"+", "-"} THEN Tail(tok) ELSE tok
  IN  body # <<>> /\ \A i \in 1..Len(body) : IsDigit(body[i])

RECURSIVE DigitsValue(_)
DigitsValue(ds) ==
  IF ds = <<>> THEN 0
  ELSE 10 * DigitsValue(SubSeq(ds, 1, Len(ds) - 1)) + DigitValue(ds[Len(ds)])

\* int(tok), for a tok that IsInt
ParseInt(tok) ==
  IF Head(tok) = "-" THEN 0 - DigitsValue(Tail(tok))
  ELSE IF Head(tok) = "+" THEN DigitsValue(Tail(tok))
  ELSE DigitsValue(tok)

\* str.replace(pat, ''): every occurrence of pat removed, left to right
RECURSIVE Remove(_, _)
Remove(s, pat) ==
  IF s = <<>> THEN <<>>
  ELSE IF StartsWith(s, pat) THEN Remove(SubSeq(s, Len(pat) + 1, Len(s)), pat)
  ELSE <<Head(s)>> \o Remove(Tail(s), pat)

NS == <<".", "N", "S">>

\* f"{sym}.NS"
Ticker(sym) == sym \o NS

(* --------------------------- inbound texts ----------------------------- *)
BUY == <<"/", "B", "U", "Y">>
SELL == <<"/", "S", "E", "L", "L">>
RESET == <<"/", "R", "E", "S", "E", "T">>

TxtBuyA == <<"/", "b", "u", "y", " ", "a", " ", "1">>
TxtBuyBadShares == <<"/", "B", "U", "Y", " ", "A", " ", "x">>
TxtBuyShort == <<"/", "B", "U", "Y", " ", "A">>
TxtBuyExtra == <<"/", "B", "U", "Y", " ", " ", "B", " ", "2", " ", "9">>
TxtSellA == <<"/", "s", "e", "l", "l", " ", "A">>
TxtSellExtra == <<"/", "S", "E", "L", "L", " ", "B", " ", "A">>
TxtSellBare == <<"/", "S", "E", "L", "L">>
TxtReset == <<" ", "/", "r", "e", "s", "e", "t", " ">>
TxtResetExtra == <<"/", "R", "E", "S", "E", "T", " ", "x">>
TxtOther == <<"B", "U", "Y", " ", "A", " ", "1">>
TxtBuyA2 == <<"/", "B", "U", "Y", " ", "A", " ", "2">>
TxtSellB == <<"/", "S", "E", "L", "L", " ", "b">>
TxtResetLong == <<"/", "R", "E", "S", "E", "T", "S">>

\* the texts the transport delivers in runs of main
Texts ==
  { TxtBuyA, TxtBuyBadShares, TxtBuyShort, TxtBuyExtra, TxtSellA,
    TxtSellExtra, TxtSellBare, TxtReset, TxtResetExtra, TxtOther }

\* the texts a single call of check_telegram_commands is tried on
AllTexts == Texts \cup { TxtBuyA2, TxtSellB, TxtResetLong }


(* ------------------------------- state --------------------------------- *)
VARIABLES
  run,           \* number of the scheduled run of main under way
  pc,            \* where main is
  fault,         \* the exception that ended the run, "none" otherwise
  disk,          \* portfolio.json: NoFile or <<the record last written>>
  portfolio,     \* main's portfolio dict, until Phase 2 has read its holdings
  last_id,       \* check_telegram_commands: the cursor read at entry
  update_id,     \* check_telegram_commands: update_id of the item last read
  changes_made,  \* check_telegram_commands: changes_made
  updated,       \* main: the flag check_telegram_commands returned
  notes,         \* messages send_telegram delivered during this run's sync
  entry,         \* history: the portfolio as check_telegram_commands got it
  nItems,        \* history: items of the response read so far
  applied,       \* history: BUY, SELL and RESET mutations made in this run
  maxSeen,       \* history: largest update_id read in this run, 0 if none
  failed,        \* history: the Command Channel call that failed, "none" otherwise
  saves,         \* history: calls of save_portfolio in this run
  holdings,      \* main: holdings, read from portfolio at the start of Phase 2
  nifty,         \* main: the benchmark frame, QAbsent until it is downloaded
  market_safe,   \* main: market_safe
  today,         \* the day of the month pd.Timestamp.now() gave, 0 before
  data,          \* the downloaded quotes of the held tickers
  report,        \* main: the position lines of the report
  candidates,    \* main: the sorted candidates
  buys,          \* main: the buy lines of the report
  final_sent,    \* whether send_telegram(final_msg) was reached and returned
  inbox,         \* the chat's messages at the server; update_id = index
  respHi,        \* the last update_id of the response being read
  seen,          \* history: update_ids read by this run
  seenBefore,    \* history: update_ids read by earlier runs that completed
  message        \* history: the text of the item last read, kept where
                 \* check_telegram_commands is examined alone, <<>> elsewhere

syncVars == <<last_id, update_id, changes_made, updated, notes, entry,
              nItems, applied, maxSeen, failed, saves>>
scanVars == <<holdings, nifty, market_safe, today, data, report, candidates, buys, final_sent>>
envVars == <<inbox, respHi, seen, seenBefore, message>>
vars == <<run, pc, fault, disk, portfolio, syncVars, scanVars, envVars>>

\* portfolio.json: absent, or holding one record
NoFile == <<>>

\* os.path.exists(PORTFOLIO_FILE)
Exists(file) == Len(file) > 0

\* load_portfolio's record for a missing file
DefaultPortfolio == [cash |-> 25000, holdings |-> <<>>, last_update_id |-> 0]

Position(symbol, shares) == [symbol |-> symbol, shares |-> shares]

Note(kind, symbol, shares) == [kind |-> kind, symbol |-> symbol, shares |-> shares]

(* ------------------------ check_telegram_commands ---------------------- *)
\* message = item['message']['text'].strip().upper()
Message(text) == Upper(Strip(text))

\* "if len(parts) >= 3" of /BUY
BuyArgsOk(parts) == Len(parts) >= 3

\* "if len(parts) >= 2" of /SELL
SellArgsOk(parts) == Len(parts) >= 2

\* a slip: only the first lot of the symbol is dropped
RECURSIVE NewHoldingsFirstLot(_, _)
NewHoldingsFirstLot(hs, symbol) ==
  IF hs = <<>> THEN <<>>
  ELSE IF Head(hs).symbol = symbol THEN Tail(hs)
  ELSE <<Head(hs)>> \o NewHoldingsFirstLot(Tail(hs), symbol)

\* [h for h in portfolio['holdings'] if h['symbol'] != symbol]
NewHoldings(hs, symbol) == SelectSeq(hs, LAMBDA h : h.symbol # symbol)

\* "if len(new_holdings) < len(portfolio['holdings'])"
SellMatches(hs, symbol) == Len(NewHoldings(hs, symbol)) < Len(hs)

\* a slip: /RESET is matched like /BUY and /SELL, by its beginning
IsResetPrefix(msg) == StartsWith(msg, RESET)

\* "elif message == '/RESET'"
IsReset(msg) == msg = RESET

\* message and message.split() of each text the transport may deliver
Messages == [t \in AllTexts |-> Message(t)]

Parts == [t \in AllTexts |-> Split(Message(t))]

\* What one item's text asks for: the branch of the if/elif chain taken.
\*   "buy"/"sell"/"reset": a mutation; "bad": int() raises ValueError;
\*   "none": no branch, or a branch whose inner test fails.
Command(text, hs) ==
  LET msg == Messages[text]
      parts == Parts[text]
  IN  IF StartsWith(msg, BUY)
      THEN IF BuyArgsOk(parts)
           THEN IF IsInt(parts[3])
                THEN [kind |-> "buy", symbol |-> parts[2], shares |-> ParseInt(parts[3])]
                ELSE [kind |-> "bad", symbol |-> parts[2], shares |-> 0]
           ELSE [kind |-> "none", symbol |-> <<>>, shares |-> 0]
      ELSE IF StartsWith(msg, SELL)
      THEN IF SellArgsOk(parts) /\ SellMatches(hs, parts[2])
           THEN [kind |-> "sell", symbol |-> parts[2], shares |-> 0]
           ELSE [kind |-> "none", symbol |-> <<>>, shares |-> 0]
      ELSE IF IsReset(msg)
      THEN [kind |-> "reset", symbol |-> <<>>, shares |-> 0]
      ELSE [kind |-> "none", symbol |-> <<>>, shares |-> 0]

\* holdings after the mutation of command c
Mutate(hs, c) ==
  CASE c.kind = "buy" -> Append(hs, Position(c.symbol, c.shares))
    [] c.kind = "sell" -> NewHoldings(hs, c.symbol)
    [] c.kind = "reset" -> <<>>
    [] OTHER -> hs

\* the notification send_telegram is called with after the mutation of c
Notification(c) ==
  CASE c.kind = "buy" -> Note("added", c.symbol, c.shares)
    [] c.kind = "sell" -> Note("removed", c.symbol, 0)
    [] OTHER -> Note("reset", <<>>, 0)

\* a slip: the /SELL branch makes no send_telegram call
SentButSell(ns, c) == IF c.kind = "sell" THEN ns ELSE Append(ns, Notification(c))

\* the notifications delivered, after the send_telegram call of c's branch
Sent(ns, c) == Append(ns, Notification(c))

\* holdings hs after the mutations that the notifications ns report, in order
RECURSIVE Replay(_, _)
Replay(hs, ns) ==
  IF ns = <<>> THEN hs
  ELSE Replay(CASE Head(ns).kind = "added" ->
                     Append(hs, Position(Head(ns).symbol, Head(ns).shares))
                [] Head(ns).kind = "removed" -> NewHoldings(hs, Head(ns).symbol)
                [] OTHER -> <<>>,
              Tail(ns))

IsMutation(c) == c.kind \in {"buy", "sell", "reset"}

\* a slip: the /RESET branch does not set changes_made
SetsChangedNoReset(c, flag) == flag \/ c.kind \in {"buy", "sell"}

\* "changes_made = True" in the three branches
SetsChanged(c, flag) == flag \/ c.kind \in {"buy", "sell", "reset"}

\* "if updated:" of main
ShouldSave(flag) == flag

\* holdings hs after each of the texts, in order, went through the if/elif
\* chain once
RECURSIVE AppliedOnce(_, _)
AppliedOnce(hs, texts) ==
  IF texts = <<>> THEN hs
  ELSE AppliedOnce(Mutate(hs, Command(Head(texts), hs)), Tail(texts))

\* what load_portfolio returns for the file
Stored(file) == IF Exists(file) THEN file[1] ELSE DefaultPortfolio

\* a slip: the cursor is left where it was
NextCursorStuck(cursor, id) == cursor

\* "portfolio['last_update_id'] = update_id", the last statement of the loop body
NextCursor(cursor, id) == id

Max(a, b) == IF a >= b THEN a ELSE b


(* ------------------------------- quotes -------------------------------- *)
\* What yfinance and pandas_ta give for one ticker: whether the frame has the
\* ticker at all, its rows, the last Close (a number or NaN), the last value
\* of ta.sma (None for fewer rows than the length, NaN, or a number) and the
\* 21-session percentage change.
Quote(present, rows, close_kind, close, sma_kind, sma, score) ==
  [present |-> present, rows |-> rows, close_kind |-> close_kind,
   close |-> close, sma_kind |-> sma_kind, sma |-> sma, score |-> score]

QAbsent == Quote(FALSE, 0, "nan", 0, "none", 0, 0)

(* ------------------------------- Init ---------------------------------- *)
Init ==
  /\ run = 1 /\ pc = "load" /\ fault = "none"
  /\ disk = NoFile
  /\ portfolio = DefaultPortfolio
  /\ last_id = 0 /\ update_id = 0 /\ changes_made = FALSE
  /\ updated = FALSE /\ notes = <<>> /\ entry = DefaultPortfolio
  /\ nItems = 0 /\ applied = 0 /\ maxSeen = 0 /\ failed = "none" /\ saves = 0
  /\ holdings = <<>> /\ nifty = QAbsent /\ today = 0
  /\ market_safe = FALSE /\ data = <<>> /\ report = <<>>
  /\ candidates = <<>> /\ buys = <<>> /\ final_sent = FALSE
  /\ inbox = <<>> /\ respHi = 0 /\ seen = {} /\ seenBefore = {}
  /\ message = <<>>

\* Phase 1 is over: its locals and its history are dropped, and so is
\* portfolio, which Phase 2 reads once ("holdings = portfolio['holdings']")
LeaveSync ==
  /\ portfolio' = DefaultPortfolio
  /\ last_id' = 0 /\ update_id' = 0 /\ changes_made' = FALSE
  /\ updated' = FALSE /\ notes' = <<>> /\ entry' = DefaultPortfolio
  /\ nItems' = 0 /\ applied' = 0 /\ maxSeen' = 0 /\ failed' = "none"
  /\ saves' = 0

(* ------------------------------ actions -------------------------------- *)
\* load_portfolio
Load ==
  /\ pc = "load"
  /\ portfolio' = Stored(disk)
  /\ pc' = "fetch"
  /\ UNCHANGED <<run, fault, disk, syncVars, scanVars, envVars>>

\* requests.get(url).json() raises: "return portfolio, False"
FetchFails ==
  /\ pc = "fetch"
  /\ last_id' = portfolio.last_update_id
  /\ entry' = portfolio
  /\ failed' = "fetch"
  /\ updated' = FALSE
  /\ pc' = "sync"
  /\ UNCHANGED <<run, fault, disk, portfolio, update_id, changes_made,
                 notes, nItems, applied, maxSeen, saves, scanVars, envVars>>

\* requests.get(url).json() returns; changes_made = False
FetchReturns ==
  /\ pc = "fetch"
  /\ last_id' = portfolio.last_update_id
  /\ entry' = portfolio
  /\ changes_made' = FALSE
  /\ pc' = "loop"
  /\ UNCHANGED <<run, fault, disk, portfolio, update_id, updated, notes,
                 nItems, applied, maxSeen, failed, saves, scanVars>>

\* One turn of "for item in response.get('result', [])" on the item
\* (id, text); sendOk: requests.post of send_telegram returns, else it raises.
Handle(id, text, sendOk) ==
  LET c == Command(text, portfolio.holdings)
  IN  /\ pc = "loop"
      /\ c.kind = "buy" => Len(portfolio.holdings) < MaxHold
      /\ update_id' = id
      /\ nItems' = nItems + 1
      /\ maxSeen' = Max(maxSeen, id)
      /\ applied' = applied + (IF IsMutation(c) THEN 1 ELSE 0)
      /\ IF c.kind = "bad"
         THEN \* int(parts[2]) raises ValueError, which nothing catches
              /\ pc' = "aborted" /\ fault' = "ValueError"
              /\ UNCHANGED <<portfolio, changes_made, notes, failed>>
         ELSE IF IsMutation(c)
         THEN /\ changes_made' = SetsChanged(c, changes_made)
              /\ IF sendOk
                 THEN /\ portfolio' = [portfolio EXCEPT
                            !.holdings = Mutate(@, c),
                            !.last_update_id = NextCursor(@, id)]
                      /\ notes' = Sent(notes, c)
                      /\ UNCHANGED <<pc, fault, failed>>
                 ELSE \* requests.post raises, which nothing catches
                      /\ portfolio' = [portfolio EXCEPT !.holdings = Mutate(@, c)]
                      /\ pc' = "aborted" /\ fault' = "ConnectionError"
                      /\ failed' = "send"
                      /\ UNCHANGED notes
         ELSE /\ portfolio' = [portfolio EXCEPT
                    !.last_update_id = NextCursor(@, id)]
              /\ UNCHANGED <<pc, fault, changes_made, notes, failed>>
      /\ UNCHANGED <<run, disk, last_id, entry, updated, saves, scanVars>>

\* an item of a response that may hold any update_id in any order
Item ==
  /\ nItems < MaxBatch
  /\ \E id \in 1..MaxSeq, text \in Texts, sendOk \in BOOLEAN :
        Handle(id, text, sendOk)
  /\ UNCHANGED envVars

\* "return portfolio, changes_made"
Return ==
  /\ pc = "loop"
  /\ updated' = changes_made
  /\ pc' = "sync"
  /\ UNCHANGED <<run, fault, disk, portfolio, last_id, update_id,
                 changes_made, notes, entry, nItems, applied, maxSeen, failed,
                 saves, scanVars, envVars>>

\* "if updated: save_portfolio(portfolio)"; the write succeeds
SaveOk ==
  /\ pc = "sync" /\ ShouldSave(updated)
  /\ disk' = <<portfolio>>
  /\ saves' = saves + 1
  /\ pc' = "push"
  /\ UNCHANGED <<run, fault, portfolio, last_id, update_id, changes_made,
                 updated, notes, entry, nItems, applied, maxSeen, failed,
                 scanVars, envVars>>

\* open(PORTFOLIO_FILE, 'w') raises, which nothing catches
SaveFails ==
  /\ pc = "sync" /\ ShouldSave(updated)
  /\ saves' = saves + 1
  /\ pc' = "aborted" /\ fault' = "OSError"
  /\ UNCHANGED <<run, disk, portfolio, last_id, update_id, changes_made,
                 updated, notes, entry, nItems, applied, maxSeen, failed,
                 scanVars, envVars>>

\* "if updated" is false: nothing is written
SkipSave ==
  /\ pc = "sync" /\ ~ShouldSave(updated)
  /\ pc' = "scan"
  /\ UNCHANGED <<run, fault, disk, portfolio, syncVars, scanVars, envVars>>

\* git_commit_push inside try/except: subprocess.run reports a failed push by
\* its return code, which is not read, so either outcome goes on
Push ==
  /\ pc = "push"
  /\ pc' = "scan"
  /\ UNCHANGED <<run, fault, disk, portfolio, syncVars, scanVars, envVars>>

\* the response may hold any items (Item draws them)
FetchOk == FetchReturns /\ UNCHANGED envVars

(* ---------------------------- the morning scan ------------------------- *)
SymA == <<"A">>
SymB == <<"B">>
SymC == <<"C">>

\* get_nifty100_live: the index list as downloaded, in some order
LiveLists ==
  { <<Ticker(SymA), Ticker(SymB), Ticker(SymC)>>,
    <<Ticker(SymA), Ticker(SymC), Ticker(SymB)>>,
    <<Ticker(SymB), Ticker(SymA), Ticker(SymC)>>,
    <<Ticker(SymB), Ticker(SymC), Ticker(SymA)>>,
    <<Ticker(SymC), Ticker(SymA), Ticker(SymB)>>,
    <<Ticker(SymC), Ticker(SymB), Ticker(SymA)>> }

\* get_nifty100_live: the fixed list returned when the download fails
FallbackList == <<Ticker(SymB), Ticker(SymC)>>

QNaN == Quote(TRUE, 300, "nan", 0, "nan", 0, 0)
QShortNone == Quote(TRUE, 100, "num", 2, "none", 0, 1)
QShortNaN == Quote(TRUE, 100, "num", 2, "nan", 0, 1)
QMid == Quote(TRUE, 220, "num", 3, "num", 2, 2)
QBelow == Quote(TRUE, 300, "num", 1, "num", 2, 2)
QEqual == Quote(TRUE, 300, "num", 2, "num", 2, 2)
QAbove1 == Quote(TRUE, 300, "num", 3, "num", 2, 1)
QAbove2 == Quote(TRUE, 300, "num", 3, "num", 2, 2)

QEmpty == Quote(TRUE, 0, "nan", 0, "none", 0, 0)

\* ta.sma(close, length=200) has a number to give only from 200 rows on: on a
\* shorter series it returns None (or, in a build that computes the rolling
\* mean regardless, NaN)
SmaDefined(q) == q.sma_kind = "num" => q.rows >= SMA_LENGTH

Quotes ==
  { q \in { QAbsent, QNaN, QShortNone, QShortNaN, QMid, QBelow, QEqual,
            QAbove1, QAbove2 } : SmaDefined(q) }

\* the benchmark frame: empty when the download failed
NiftyQuotes ==
  { q \in { QEmpty, QShortNone, QShortNaN, QBelow, QEqual, QAbove1 } :
      SmaDefined(q) }

\* a comparison with NaN is False
Less(a_kind, a, b_kind, b) == a_kind = "num" /\ b_kind = "num" /\ a < b

Greater(a_kind, a, b_kind, b) == a_kind = "num" /\ b_kind = "num" /\ a > b

\* nifty['Close'].iloc[-1] > nifty['SMA_200'].iloc[-1]: "IndexError" on an
\* empty frame, "TypeError" on a None average, else the comparison
Regime(q) ==
  IF q.rows = 0 THEN "IndexError"
  ELSE IF q.sma_kind = "none" THEN "TypeError"
  ELSE IF Greater(q.close_kind, q.close, q.sma_kind, q.sma) THEN "safe"
  ELSE "unsafe"

Line(kind, symbol) == [kind |-> kind, symbol |-> symbol]

\* "elif current < sma" of the position loop
TrendBroken(q) == Less(q.close_kind, q.close, q.sma_kind, q.sma)

\* the report line of one held position: the body of "for h in holdings"
PositionLine(sym, q, safe) ==
  IF ~q.present \/ q.rows = 0 \/ q.sma_kind = "none"
  THEN Line("error", sym)     \* KeyError, IndexError, None.iloc: "except:"
  ELSE IF ~safe THEN Line("crash", sym)
  ELSE IF TrendBroken(q) THEN Line("trend", sym)
  ELSE IF q.close_kind = "nan" THEN Line("error", sym)   \* int(nan) raises
  ELSE Line("hold", sym)

\* my_symbols
MySymbols(hs) == [i \in 1..Len(hs) |-> hs[i].symbol]

InSeq(x, s) == \E i \in 1..Len(s) : s[i] = x

\* "if len(df) < 250: continue" and "if close > sma" of the candidate loop
Eligible(q) ==
  /\ q.present
  /\ q.close_kind = "num"
  /\ q.rows >= MIN_ROWS
  /\ Greater(q.close_kind, q.close, q.sma_kind, q.sma)

Candidate(t, q) == [symbol |-> Remove(t, NS), score |-> q.score]

\* candidates, in the order of tickers
RECURSIVE Collect(_, _)
Collect(tickers, d) ==
  IF tickers = <<>> THEN <<>>
  ELSE (IF Eligible(d[Head(tickers)])
        THEN <<Candidate(Head(tickers), d[Head(tickers)])>>
        ELSE <<>>) \o Collect(Tail(tickers), d)

\* c goes before the first element of the sorted s with a smaller score
RECURSIVE InsertDesc(_, _)
InsertDesc(c, s) ==
  IF s = <<>> THEN <<c>>
  ELSE IF Head(s).score < c.score THEN <<c>> \o s
  ELSE <<Head(s)>> \o InsertDesc(c, Tail(s))

\* candidates.sort(key=score, reverse=True): stable
RECURSIVE SortDesc(_)
SortDesc(s) ==
  IF s = <<>> THEN <<>>
  ELSE InsertDesc(s[Len(s)], SortDesc(SubSeq(s, 1, Len(s) - 1)))

\* a slip: the test on my_symbols is left out
NotHeldUnchecked(symbol, my_symbols) == TRUE

\* "if c['symbol'] not in my_symbols"
NotHeld(symbol, my_symbols) == ~InSeq(symbol, my_symbols)

\* "if count >= 2: break"
Limit(hs) == TOP_N

\* the loop over the sorted candidates, count being the lines added so far
RECURSIVE Pick(_, _, _, _)
Pick(cands, my_symbols, count, limit) ==
  IF cands = <<>> \/ count >= limit THEN <<>>
  ELSE IF NotHeld(Head(cands).symbol, my_symbols)
       THEN <<Head(cands)>> \o Pick(Tail(cands), my_symbols, count + 1, limit)
       ELSE Pick(Tail(cands), my_symbols, count, limit)

\* a slip: the regime is not asked
SlotsOpenAnyRegime(safe, hs) == Len(hs) < MAX_POSITIONS

\* "if market_safe and len(holdings) < MAX_POSITIONS"
SlotsOpen(safe, hs) == safe /\ Len(hs) < MAX_POSITIONS

HeldTickers(hs) == {Ticker(hs[i].symbol) : i \in 1..Len(hs)}

Range(s) == {s[i] : i \in 1..Len(s)}


\* pd.Timestamp.now() of the report's header: days of the month in the first
\* week and after it
Days == {7, 8}

\* Phase 2 starts: "holdings = portfolio['holdings']", the downloads,
\* "market_safe = ...", where an exception ends the run, and the header
Benchmark ==
  /\ pc = "scan"
  /\ holdings' = portfolio.holdings
  /\ LeaveSync
  /\ \E q \in NiftyQuotes :
       LET r == Regime(q)
       IN  /\ nifty' = q
           /\ IF r \in {"IndexError", "TypeError"}
              THEN /\ pc' = "aborted" /\ fault' = r
                   /\ UNCHANGED <<market_safe, today>>
              ELSE /\ market_safe' = (r = "safe")
                   /\ today' \in Days
                   /\ pc' = "positions"
                   /\ UNCHANGED fault
  /\ UNCHANGED <<run, disk, data, report, candidates, buys, final_sent, envVars>>

\* "if holdings: for h in holdings: ..." on the quotes of the held tickers
Positions ==
  /\ pc = "positions"
  /\ \E d \in [HeldTickers(holdings) -> Quotes] :
       /\ data' = d
       /\ report' = [i \in 1..Len(holdings) |->
                       PositionLine(holdings[i].symbol,
                                    d[Ticker(holdings[i].symbol)], market_safe)]
  /\ pc' = "signals"
  /\ UNCHANGED <<run, fault, disk, portfolio, syncVars, holdings, nifty,
                 market_safe, today, candidates, buys, final_sent, envVars>>

\* the buy block, on the list get_nifty100_live returned and the quotes of
\* its tickers (those of the held tickers as Positions read them)
Signals ==
  /\ pc = "signals"
  /\ IF SlotsOpen(market_safe, holdings)
     THEN \E tickers \in LiveLists \cup {FallbackList} :
          \E d \in [Range(tickers) -> Quotes] :
            /\ \A t \in Range(tickers) \cap DOMAIN data : d[t] = data[t]
            /\ candidates' = SortDesc(Collect(tickers, d))
            /\ buys' = Pick(candidates', MySymbols(holdings), 0, Limit(holdings))
     ELSE UNCHANGED <<candidates, buys>>
  /\ pc' = "send"
  /\ UNCHANGED <<run, fault, disk, portfolio, syncVars, holdings, nifty,
                 market_safe, today, data, report, final_sent, envVars>>

\* send_telegram(final_msg): requests.post returns, or raises
SendReport ==
  /\ pc = "send"
  /\ \E ok \in BOOLEAN :
       IF ok
       THEN final_sent' = TRUE /\ pc' = "done" /\ UNCHANGED <<fault, failed>>
       ELSE /\ pc' = "aborted" /\ fault' = "ConnectionError"
            /\ failed' = "report" /\ UNCHANGED final_sent
  /\ UNCHANGED <<run, disk, portfolio, last_id, update_id, changes_made,
                 updated, notes, entry, nItems, applied, maxSeen, saves,
                 holdings, nifty, market_safe, today, data, report, candidates,
                 buys, envVars>>

RunOver == pc \in {"done", "aborted"}

\* the scheduler starts main again: a new process, with portfolio.json as the
\* last run left it
StartRun ==
  /\ RunOver
  /\ run < MaxRuns
  /\ run' = run + 1
  /\ pc' = "load" /\ fault' = "none"
  /\ LeaveSync
  /\ holdings' = <<>> /\ nifty' = QAbsent /\ today' = 0
  /\ market_safe' = FALSE /\ data' = <<>> /\ report' = <<>>
  /\ candidates' = <<>> /\ buys' = <<>> /\ final_sent' = FALSE
  /\ respHi' = 0 /\ seen' = {}
  /\ seenBefore' = IF pc = "done" THEN seenBefore \cup seen ELSE seenBefore
  /\ UNCHANGED <<disk, inbox, message>>

Next ==
  \/ Load \/ FetchFails \/ FetchOk \/ Item \/ Return
  \/ SaveOk \/ SaveFails \/ SkipSave \/ Push
  \/ Benchmark \/ Positions \/ Signals \/ SendReport
  \/ StartRun

Spec == Init /\ [][Next]_vars

(* ------------------- a transport that honours the offset ---------------- *)
\* The chat gets a message; the server numbers the updates 1, 2, ...  A
\* message that arrives later in the run is one that arrives before the next
\* run's getUpdates.
UserSends ==
  /\ pc = "fetch"
  /\ Len(inbox) < MaxSeq
  /\ \E text \in Texts : inbox' = Append(inbox, text)
  /\ UNCHANGED <<run, pc, fault, disk, portfolio, syncVars, scanVars, respHi,
                 seen, seenBefore, message>>

\* getUpdates?offset=last_id+1 returns the updates offset..Len(inbox), in order
FetchOkWB ==
  /\ FetchReturns
  /\ respHi' = Len(inbox)
  /\ UNCHANGED <<inbox, seen, seenBefore, message>>

\* the loop reads the next item of the response
ItemWB ==
  /\ last_id + nItems < respHi
  /\ \E sendOk \in BOOLEAN :
        Handle(last_id + nItems + 1, inbox[last_id + nItems + 1], sendOk)
  /\ seen' = seen \cup {last_id + nItems + 1}
  /\ UNCHANGED <<inbox, respHi, seenBefore, message>>

\* the response is exhausted: "return portfolio, changes_made"
ReturnWB ==
  /\ last_id + nItems >= respHi
  /\ Return

\* Phase 2 of main, which reads portfolio and writes neither portfolio.json
\* nor the chat's updates: it ends with the report sent or with an exception
ScanOutcome ==
  /\ pc = "scan"
  /\ holdings' = portfolio.holdings
  /\ LeaveSync
  /\ \E ok \in BOOLEAN :
       IF ok
       THEN final_sent' = TRUE /\ pc' = "done" /\ UNCHANGED fault
       ELSE pc' = "aborted" /\ fault' = "Exception" /\ UNCHANGED final_sent
  /\ UNCHANGED <<run, disk, nifty, market_safe, today, data, report,
                 candidates, buys, envVars>>

NextWB ==
  \/ UserSends
  \/ Load \/ FetchFails \/ FetchOkWB \/ ItemWB \/ ReturnWB
  \/ SaveOk \/ SaveFails \/ SkipSave \/ Push
  \/ ScanOutcome
  \/ StartRun

\* runs of main against a transport that honours the offset
SpecWB == Init /\ [][NextWB]_vars

(* ------------------- check_telegram_commands alone ---------------------- *)
\* positions a holdings list is made of: two lots of A and one of B
Lots == { Position(SymA, 1), Position(SymA, 2), Position(SymB, 2) }

\* portfolio['holdings'] as loaded: any list of lots
HoldingsLists == UNION { [1..n -> Lots] : n \in 0..MaxHold }

\* check_telegram_commands is entered with a loaded portfolio of any holdings,
\* and the fetch has returned
InitCmd ==
  /\ run = 1 /\ pc = "loop" /\ fault = "none"
  /\ \E hs \in HoldingsLists :
        portfolio = [DefaultPortfolio EXCEPT !.holdings = hs]
  /\ disk = <<portfolio>>
  /\ entry = portfolio
  /\ last_id = 0 /\ update_id = 0 /\ changes_made = FALSE
  /\ updated = FALSE /\ notes = <<>>
  /\ nItems = 0 /\ applied = 0 /\ maxSeen = 0 /\ failed = "none" /\ saves = 0
  /\ holdings = <<>> /\ nifty = QAbsent /\ today = 0
  /\ market_safe = FALSE /\ data = <<>> /\ report = <<>>
  /\ candidates = <<>> /\ buys = <<>> /\ final_sent = FALSE
  /\ inbox = <<>> /\ respHi = 0 /\ seen = {} /\ seenBefore = {}
  /\ message = <<>>

\* one turn of the loop on the next item of an in-order response, its text
\* kept
ItemCmd ==
  /\ nItems < MaxBatch
  /\ \E text \in AllTexts, sendOk \in BOOLEAN :
        /\ Handle(portfolio.last_update_id + 1, text, sendOk)
        /\ message' = text
  /\ UNCHANGED <<inbox, respHi, seen, seenBefore>>

NextCmd == ItemCmd \/ Return

\* one call of check_telegram_commands, on any holdings and any batch
SpecCmd == InitCmd /\ [][NextCmd]_vars


(* ------------------------------- claims -------------------------------- *)
\* C1: an item whose update_id is not above the cursor read at entry changes
\* neither the portfolio (holdings, cursor) nor the notifications sent.
C1_ReplayIgnored ==
  [][(nItems' = nItems + 1 /\ update_id' <= last_id)
       => (portfolio' = portfolio /\ notes' = notes)]_vars

\* C2: a /BUY whose shares token int() rejects (the only place fault becomes
\* "ValueError") does not end the run, and the cursor reaches its update_id.
C2_BadSharesDropped ==
  fault = "ValueError" => (pc # "aborted" /\ portfolio.last_update_id >= update_id)

\* C3: when check_telegram_commands has returned, the cursor is the larger of
\* the cursor at entry and the largest update_id of the batch.
C3_CursorIsMax ==
  pc = "sync" => portfolio.last_update_id = Max(entry.last_update_id, maxSeen)

\* C4: a run that is over has sent the final report, or failed in the very
\* send_telegram(final_msg) call.
C4_ReportAlwaysSent == RunOver => (final_sent \/ failed = "report")

\* C5: with a transport that honours the offset, no update read by a run that
\* completed is read again by a later run.
C5_NeverRedelivered == seen \cap seenBefore = {}

\* C6: when the market is unsafe, every held position gets the market-crash
\* SELL line.
C6_RegimeOverride ==
  (pc \in {"signals", "send", "done"} /\ ~market_safe)
    => \A i \in 1..Len(holdings) : report[i].kind = "crash"

\* C7: the report holds at most MAX_POSITIONS - len(holdings) buy lines (none
\* when no slot is open).
C7_BuysWithinSlots == Len(buys) <= Max(0, MAX_POSITIONS - Len(holdings))

\* C8: no buy line names a symbol that is in holdings.
C8_NoHeldSymbolBought ==
  \A i \in 1..Len(buys) : \A j \in 1..Len(holdings) :
     buys[i].symbol # holdings[j].symbol

\* C8's case: the best candidate is held and skipped, and the next one is bought
C8_HeldRanksFirst ==
  /\ pc = "send"
  /\ Len(holdings) = 1 /\ Len(candidates) >= 2 /\ Len(buys) >= 1
  /\ candidates[1].symbol = holdings[1].symbol
  /\ buys[1] = candidates[2]

\* C9: after a failed Command Channel call in check_telegram_commands (the
\* fetch, or a notification), the function has returned the portfolio as it
\* was at entry with changed = false, and nothing was saved.
C9_ChannelFailureReturnsUnchanged ==
  failed \in {"fetch", "send"}
    => (pc \in {"sync", "scan"} /\ portfolio = entry /\ ~updated /\ saves = 0)

\* C10: the flag returned is true iff a BUY, SELL or RESET mutation was made in
\* the batch; save_portfolio is called iff the flag is true, at most once, after
\* the loop, with the portfolio the loop left.
C10_ChangedGatesSave ==
  /\ pc \in {"sync", "push", "scan"} => (updated <=> applied > 0)
  /\ saves <= 1
  /\ pc \in {"push", "scan"} => (saves = 1 <=> updated)
  /\ saves = 1 => (updated /\ (pc \in {"push", "scan"} \/ fault = "OSError"))
  /\ pc = "push" => disk = <<portfolio>>

\* C10's case: a batch of two items, one of them a mutation, has been saved
C10_SavedAfterBatch ==
  pc = "push" /\ nItems >= 2 /\ applied = 1 /\ saves = 1

\* C11: a turn of the loop on "SELL <symbol>" with no position of that symbol
\* changes neither holdings nor the notifications nor changes_made, and a
\* batch of that one item returns changed = false; with a position of that
\* symbol it leaves exactly the positions of other symbols, in their order,
\* sets changes_made and makes the one "removed" notification call.
C11_SellAllLotsOrNothing ==
  /\ [](  (pc = "sync" /\ nItems = 1 /\ message \in {TxtSellA, TxtSellB}
            /\ \A i \in 1..Len(entry.holdings) :
                  entry.holdings[i].symbol # Parts[message][2])
         => (~updated /\ portfolio.holdings = entry.holdings /\ notes = <<>>))
  /\ [][(nItems' = nItems + 1 /\ message' \in {TxtSellA, TxtSellB}) =>
          LET sym == IF message' = TxtSellA THEN SymA ELSE SymB
              hs == portfolio.holdings
          IN  IF \E i \in 1..Len(hs) : hs[i].symbol = sym
              THEN /\ portfolio'.holdings = SelectSeq(hs, LAMBDA h : h.symbol # sym)
                   /\ changes_made'
                   /\ \/ notes' = Append(notes, Note("removed", sym, 0))
                      \/ (notes' = notes /\ failed' = "send")
              ELSE /\ portfolio'.holdings = hs
                   /\ notes' = notes
                   /\ changes_made' = changes_made
                   /\ pc' = pc]_vars

\* C11's case: SELL A has dropped both lots of A, and the SELL B after it
\* found no position
C11_TwoLotsSoldThenMiss ==
  /\ pc = "sync" /\ nItems = 2 /\ message = TxtSellB
  /\ entry.holdings = <<Position(SymA, 1), Position(SymA, 2)>>
  /\ portfolio.holdings = <<>>
  /\ notes = <<Note("removed", SymA, 0)>>
  /\ updated

\* C12: a turn of the loop on the text RESET (any case, spaces around it)
\* leaves holdings empty whatever they were, sets changes_made and makes the
\* one "reset" notification call; a text that only begins with RESET changes
\* nothing; and no other text brings a "reset" notification.
C12_ResetClearsAlways ==
  [][nItems' = nItems + 1 =>
       /\ message' = TxtReset =>
             /\ portfolio'.holdings = <<>>
             /\ changes_made'
             /\ \/ notes' = Append(notes, Note("reset", <<>>, 0))
                \/ (notes' = notes /\ failed' = "send")
       /\ message' \in {TxtResetExtra, TxtResetLong} =>
             /\ portfolio'.holdings = portfolio.holdings
             /\ notes' = notes
             /\ changes_made' = changes_made
       /\ (Len(notes') > Len(notes) /\ notes'[Len(notes')].kind = "reset")
             => message' = TxtReset]_vars

\* C12's case: RESET on holdings that were already empty is returned as a change
C12_ResetOfEmpty ==
  /\ pc = "sync" /\ nItems = 1 /\ message = TxtReset
  /\ entry.holdings = <<>> /\ portfolio.holdings = <<>>
  /\ updated /\ notes = <<Note("reset", <<>>, 0)>>

\* C13: a turn of the loop makes one notification call (delivered, or raising)
\* when it changed holdings or was a RESET, and none otherwise, within the
\* same turn; so at every point of check_telegram_commands the notification
\* calls made so far are as many as the mutations applied.
C13_OneNotePerMutation ==
  /\ [](Len(notes) + (IF failed = "send" THEN 1 ELSE 0) = applied)
  /\ [][nItems' = nItems + 1 =>
          LET mutated == portfolio'.holdings # portfolio.holdings
                           \/ message' = TxtReset
              calls == Len(notes') - Len(notes)
                         + (IF failed' = "send" THEN 1 ELSE 0)
          IN  /\ calls = (IF mutated THEN 1 ELSE 0)
              /\ applied' - applied = calls
              /\ SubSeq(notes', 1, Len(notes)) = notes]_vars

\* C13's case: a batch of a BUY and a SELL that matched nothing has returned
\* with one notification
C13_OneOfTwoNotified ==
  /\ pc = "sync" /\ nItems = 2 /\ message = TxtSellB
  /\ entry.holdings = <<>>
  /\ portfolio.holdings = <<Position(SymA, 1)>>
  /\ notes = <<Note("added", SymA, 1)>> /\ applied = 1

\* C14: once the benchmark frame is downloaded with fewer than SMA_LENGTH rows
\* (none at all included), market_safe is false and the run has not ended on
\* the regime computation.
C14_ShortBenchmarkFailsClosed ==
  (nifty.present /\ nifty.rows < SMA_LENGTH)
    => (~market_safe /\ fault \notin {"IndexError", "TypeError"})

\* C15: in a safe market, with the ranking computed, a held position with
\* valid data and close above its SMA gets the rank-dropped SELL line when the
\* day of the month is at most 7 and its symbol is not among the first 15 of
\* the ranking, and the HOLD line when the day is after the 7th.
C15_RankDroppedSold ==
  (pc \in {"send", "done"} /\ SlotsOpen(market_safe, holdings)) =>
     \A i \in 1..Len(holdings) :
        LET sym == holdings[i].symbol
            q == data[Ticker(sym)]
            top == SubSeq(candidates, 1, IF Len(candidates) < 15
                                         THEN Len(candidates) ELSE 15)
        IN  (q.present /\ q.close_kind = "num" /\ q.sma_kind = "num"
             /\ q.close > q.sma)
              => IF today <= 7 /\ \A k \in 1..Len(top) : top[k].symbol # sym
                 THEN report[i].kind = "rank"
                 ELSE report[i].kind = "hold"

\* C16: in a safe market a held position with a close and an SMA gets the
\* trend-broken SELL line exactly when close <= SMA, and the HOLD line exactly
\* when close > SMA, which is the buy side's test.
C16_TrendBoundary ==
  (pc \in {"signals", "send", "done"} /\ market_safe) =>
     \A i \in 1..Len(holdings) :
        LET q == data[Ticker(holdings[i].symbol)]
        IN  (q.present /\ q.close_kind = "num" /\ q.sma_kind = "num") =>
              /\ report[i].kind = "trend" <=> q.close <= q.sma
              /\ report[i].kind = "hold" <=> q.close > q.sma

\* C17: a turn of the loop on a BUY with one or with three arguments, or on a
\* SELL with none or with two, changes neither holdings nor the notifications
\* nor changes_made, and moves the cursor to the item's update_id.
C17_ExactArgumentCount ==
  [][(nItems' = nItems + 1
       /\ message' \in {TxtBuyShort, TxtBuyExtra, TxtSellBare, TxtSellExtra})
      => /\ portfolio'.holdings = portfolio.holdings
         /\ notes' = notes
         /\ changes_made' = changes_made
         /\ portfolio'.last_update_id = update_id']_vars

\* C18: the report has buy lines only when market_safe is true and holdings
\* has fewer than MAX_POSITIONS positions; holdings is whatever the BUY
\* commands appended, at or above MAX_POSITIONS and with repeated symbols too.
C18_BuysOnlyWhenSafeAndOpen ==
  Len(buys) > 0 => (market_safe /\ Len(holdings) < MAX_POSITIONS)

\* C18's case: BUY commands have filled holdings beyond MAX_POSITIONS, one
\* symbol twice, and the report of a safe market has no buy line
C18_OverfullNoBuys ==
  /\ pc = "send" /\ market_safe
  /\ Len(holdings) > MAX_POSITIONS
  /\ holdings[1].symbol = holdings[2].symbol
  /\ buys = <<>>

\* C19: when Phase 1 of a run is over, by reaching Phase 2 or by an exception,
\* and notifications were sent in it, portfolio.json holds the holdings that
\* result from the notified mutations.
C19_NotifiedIsPersisted ==
  (pc \in {"scan", "aborted"} /\ notes # <<>>)
    => (Exists(disk) /\ disk[1].holdings = Replay(entry.holdings, notes))

\* C20: with a transport that honours the offset, the stored holdings are
\* always those that result from the default record by applying the chat's
\* updates 1 .. stored cursor once each, in order; and no step lowers the
\* stored cursor.
C20_ExactlyOnceAcrossRuns ==
  /\ [](/\ Stored(disk).last_update_id <= Len(inbox)
        /\ Stored(disk).holdings =
             AppliedOnce(<<>>, SubSeq(inbox, 1, Stored(disk).last_update_id)))
  /\ [][Stored(disk').last_update_id >= Stored(disk).last_update_id]_vars

\* C20's case: the second run loaded what the first stored and has stored a
\* later cursor and one more position
C20_SecondRunAddsOnce ==
  /\ run = 2 /\ pc = "push"
  /\ entry.last_update_id >= 1 /\ Len(entry.holdings) = 1
  /\ Stored(disk).last_update_id > entry.last_update_id
  /\ Len(Stored(disk).holdings) = 2

==========================================================================
